---------------------------- MODULE Spec2Model ----------------------------
(***************************************************************************)
(* A model of ts_analyzer.TypeScriptAnalyzer: the parse cache, the tree    *)
(* walker, the three find_* operations, custom_query and generate_stats,  *)
(* over a small file system whose files are edited, protected and deleted *)
(* between calls.                                                          *)
(*                                                                         *)
(* A text is a sequence of one-character strings.  The parsing engine is   *)
(* external: for each file content of the catalogue below the model holds  *)
(* the concrete syntax tree the TypeScript grammar gives for it, with      *)
(* node spans in characters, and ParserParse turns the spans into the      *)
(* byte offsets and (row, byte column) points of the UTF-8 encoding, which *)
(* is what the engine reports.  A cached tree is held by the identifier of *)
(* the content it was parsed from.                                         *)
(***************************************************************************)
EXTENDS Integers, Sequences, FiniteSets, TLC

VARIABLES
    disk,     \* path -> [st: "ok" | "denied" | "absent", k: content identifier]
    cache,    \* self._parsed_files_cache: str(path) -> cached tree
    last      \* the last call of a public operation since the files last
              \* changed: its arguments, the cache it started with, its result

vars == << disk, cache, last >>

(***************************************************************************)
(* The file contents of the catalogue and their syntax trees.              *)
(***************************************************************************)
Text1 ==
    << "i", "m", "p", "o", "r", "t", " ", "{", "F", "o", "o", "}", " ", "f", "r", "o", "m", " ", "'", "f", "'", "\n", "o", ".", "b", "a", "r", "(", "1", ",", "2", ")", "\n", "c", "l", "a", "s", "s", " ", "W", "i", "d", "g", "e", "t", " ", "{", "}", "\n" >>

Nodes1 ==
    <<
       [type |-> "program", s |-> 0, e |-> 48, children |-> << 2, 15, 27 >>],
       [type |-> "import_statement", s |-> 0, e |-> 21, children |-> << 3, 4, 10, 11 >>],
       [type |-> "import", s |-> 0, e |-> 6, children |-> <<  >>],
       [type |-> "import_clause", s |-> 7, e |-> 12, children |-> << 5 >>],
       [type |-> "named_imports", s |-> 7, e |-> 12, children |-> << 6, 7, 9 >>],
       [type |-> "{", s |-> 7, e |-> 8, children |-> <<  >>],
       [type |-> "import_specifier", s |-> 8, e |-> 11, children |-> << 8 >>],
       [type |-> "identifier", s |-> 8, e |-> 11, children |-> <<  >>],
       [type |-> "}", s |-> 11, e |-> 12, children |-> <<  >>],
       [type |-> "from", s |-> 13, e |-> 17, children |-> <<  >>],
       [type |-> "string", s |-> 18, e |-> 21, children |-> << 12, 13, 14 >>],
       [type |-> "'", s |-> 18, e |-> 19, children |-> <<  >>],
       [type |-> "string_fragment", s |-> 19, e |-> 20, children |-> <<  >>],
       [type |-> "'", s |-> 20, e |-> 21, children |-> <<  >>],
       [type |-> "expression_statement", s |-> 22, e |-> 32, children |-> << 16 >>],
       [type |-> "call_expression", s |-> 22, e |-> 32, children |-> << 17, 21 >>],
       [type |-> "member_expression", s |-> 22, e |-> 27, children |-> << 18, 19, 20 >>],
       [type |-> "identifier", s |-> 22, e |-> 23, children |-> <<  >>],
       [type |-> ".", s |-> 23, e |-> 24, children |-> <<  >>],
       [type |-> "property_identifier", s |-> 24, e |-> 27, children |-> <<  >>],
       [type |-> "arguments", s |-> 27, e |-> 32, children |-> << 22, 23, 24, 25, 26 >>],
       [type |-> "(", s |-> 27, e |-> 28, children |-> <<  >>],
       [type |-> "number", s |-> 28, e |-> 29, children |-> <<  >>],
       [type |-> ",", s |-> 29, e |-> 30, children |-> <<  >>],
       [type |-> "number", s |-> 30, e |-> 31, children |-> <<  >>],
       [type |-> ")", s |-> 31, e |-> 32, children |-> <<  >>],
       [type |-> "class_declaration", s |-> 33, e |-> 48, children |-> << 28, 29, 30 >>],
       [type |-> "class", s |-> 33, e |-> 38, children |-> <<  >>],
       [type |-> "type_identifier", s |-> 39, e |-> 45, children |-> <<  >>],
       [type |-> "class_body", s |-> 46, e |-> 48, children |-> << 31, 32 >>],
       [type |-> "{", s |-> 46, e |-> 47, children |-> <<  >>],
       [type |-> "}", s |-> 47, e |-> 48, children |-> <<  >>]
    >>

Text2 ==
    << "/", "/", " ", "é", "\n", "i", "m", "p", "o", "r", "t", " ", "{", "F", "o", "o", "}", " ", "f", "r", "o", "m", " ", "'", "f", "'", "\n", "b", "a", "r", "(", "1", ")", "\n" >>

Nodes2 ==
    <<
       [type |-> "program", s |-> 0, e |-> 33, children |-> << 2, 3, 16 >>],
       [type |-> "comment", s |-> 0, e |-> 4, children |-> <<  >>],
       [type |-> "import_statement", s |-> 5, e |-> 26, children |-> << 4, 5, 11, 12 >>],
       [type |-> "import", s |-> 5, e |-> 11, children |-> <<  >>],
       [type |-> "import_clause", s |-> 12, e |-> 17, children |-> << 6 >>],
       [type |-> "named_imports", s |-> 12, e |-> 17, children |-> << 7, 8, 10 >>],
       [type |-> "{", s |-> 12, e |-> 13, children |-> <<  >>],
       [type |-> "import_specifier", s |-> 13, e |-> 16, children |-> << 9 >>],
       [type |-> "identifier", s |-> 13, e |-> 16, children |-> <<  >>],
       [type |-> "}", s |-> 16, e |-> 17, children |-> <<  >>],
       [type |-> "from", s |-> 18, e |-> 22, children |-> <<  >>],
       [type |-> "string", s |-> 23, e |-> 26, children |-> << 13, 14, 15 >>],
       [type |-> "'", s |-> 23, e |-> 24, children |-> <<  >>],
       [type |-> "string_fragment", s |-> 24, e |-> 25, children |-> <<  >>],
       [type |-> "'", s |-> 25, e |-> 26, children |-> <<  >>],
       [type |-> "expression_statement", s |-> 27, e |-> 33, children |-> << 17 >>],
       [type |-> "call_expression", s |-> 27, e |-> 33, children |-> << 18, 19 >>],
       [type |-> "identifier", s |-> 27, e |-> 30, children |-> <<  >>],
       [type |-> "arguments", s |-> 30, e |-> 33, children |-> << 20, 21, 22 >>],
       [type |-> "(", s |-> 30, e |-> 31, children |-> <<  >>],
       [type |-> "number", s |-> 31, e |-> 32, children |-> <<  >>],
       [type |-> ")", s |-> 32, e |-> 33, children |-> <<  >>]
    >>

Text3 ==
    << "b", "a", "r", "B", "a", "z", "(", "1", ")", "\n", "c", "l", "a", "s", "s", " ", "O", "t", "h", "e", "r", " ", "{", "}", "\n", "e", "x", "p", "o", "r", "t", " ", "f", "u", "n", "c", "t", "i", "o", "n", " ", "f", "(", ")", " ", "{", "}", "\n" >>

Nodes3 ==
    <<
       [type |-> "program", s |-> 0, e |-> 47, children |-> << 2, 9, 15 >>],
       [type |-> "expression_statement", s |-> 0, e |-> 9, children |-> << 3 >>],
       [type |-> "call_expression", s |-> 0, e |-> 9, children |-> << 4, 5 >>],
       [type |-> "identifier", s |-> 0, e |-> 6, children |-> <<  >>],
       [type |-> "arguments", s |-> 6, e |-> 9, children |-> << 6, 7, 8 >>],
       [type |-> "(", s |-> 6, e |-> 7, children |-> <<  >>],
       [type |-> "number", s |-> 7, e |-> 8, children |-> <<  >>],
       [type |-> ")", s |-> 8, e |-> 9, children |-> <<  >>],
       [type |-> "class_declaration", s |-> 10, e |-> 24, children |-> << 10, 11, 12 >>],
       [type |-> "class", s |-> 10, e |-> 15, children |-> <<  >>],
       [type |-> "type_identifier", s |-> 16, e |-> 21, children |-> <<  >>],
       [type |-> "class_body", s |-> 22, e |-> 24, children |-> << 13, 14 >>],
       [type |-> "{", s |-> 22, e |-> 23, children |-> <<  >>],
       [type |-> "}", s |-> 23, e |-> 24, children |-> <<  >>],
       [type |-> "export_statement", s |-> 25, e |-> 47, children |-> << 16, 17 >>],
       [type |-> "export", s |-> 25, e |-> 31, children |-> <<  >>],
       [type |-> "function_declaration", s |-> 32, e |-> 47, children |-> << 18, 19, 20, 23 >>],
       [type |-> "function", s |-> 32, e |-> 40, children |-> <<  >>],
       [type |-> "identifier", s |-> 41, e |-> 42, children |-> <<  >>],
       [type |-> "formal_parameters", s |-> 42, e |-> 44, children |-> << 21, 22 >>],
       [type |-> "(", s |-> 42, e |-> 43, children |-> <<  >>],
       [type |-> ")", s |-> 43, e |-> 44, children |-> <<  >>],
       [type |-> "statement_block", s |-> 45, e |-> 47, children |-> << 24, 25 >>],
       [type |-> "{", s |-> 45, e |-> 46, children |-> <<  >>],
       [type |-> "}", s |-> 46, e |-> 47, children |-> <<  >>]
    >>

Text4 ==
    << "i", "n", "t", "e", "r", "f", "a", "c", "e", " ", "I", " ", "{", "}", "\n", "t", "y", "p", "e", " ", "T", " ", "=", " ", "I", "\n" >>

Nodes4 ==
    <<
       [type |-> "program", s |-> 0, e |-> 25, children |-> << 2, 8 >>],
       [type |-> "interface_declaration", s |-> 0, e |-> 14, children |-> << 3, 4, 5 >>],
       [type |-> "interface", s |-> 0, e |-> 9, children |-> <<  >>],
       [type |-> "type_identifier", s |-> 10, e |-> 11, children |-> <<  >>],
       [type |-> "interface_body", s |-> 12, e |-> 14, children |-> << 6, 7 >>],
       [type |-> "{", s |-> 12, e |-> 13, children |-> <<  >>],
       [type |-> "}", s |-> 13, e |-> 14, children |-> <<  >>],
       [type |-> "type_alias_declaration", s |-> 15, e |-> 25, children |-> << 9, 10, 11, 12 >>],
       [type |-> "type", s |-> 15, e |-> 19, children |-> <<  >>],
       [type |-> "type_identifier", s |-> 20, e |-> 21, children |-> <<  >>],
       [type |-> "=", s |-> 22, e |-> 23, children |-> <<  >>],
       [type |-> "type_identifier", s |-> 24, e |-> 25, children |-> <<  >>]
    >>

Text5 ==
    << "l", "e", "t", " ", "x", " ", "=", " ", "1", "\n" >>

(***************************************************************************)
(* The files find_ts_files enumerates, in the order it enumerates them.    *)
(***************************************************************************)
Paths == << "a.ts", "b.ts" >>

PathSet == { Paths[i] : i \in 1..Len(Paths) }

ContentIds == 1..5

Text(k) ==
    CASE k = 1 -> Text1
      [] k = 2 -> Text2
      [] k = 3 -> Text3
      [] k = 4 -> Text4
      [] k = 5 -> Text5

\* The contents the engine gives a tree for; on the others parser.parse raises.
CharNodes(k) ==
    CASE k = 1 -> Nodes1
      [] k = 2 -> Nodes2
      [] k = 3 -> Nodes3
      [] k = 4 -> Nodes4

ParserRejects == { 5 }

(***************************************************************************)
(* Python str operations on texts.                                         *)
(***************************************************************************)
Min(a, b) == IF a < b THEN a ELSE b

\* s[a:b] for 0 <= a, 0 <= b: the characters at 0-based positions a .. b-1
\* that exist.
Slice(s, a, b) == SubSeq(s, a + 1, Min(b, Len(s)))

IsSpace(c) == c \in { " ", "\n", "\t" }

RECURSIVE LStrip(_)
LStrip(s) == IF s # << >> /\ IsSpace(Head(s)) THEN LStrip(Tail(s)) ELSE s

RECURSIVE RStrip(_)
RStrip(s) ==
    IF s # << >> /\ IsSpace(s[Len(s)]) THEN RStrip(SubSeq(s, 1, Len(s) - 1)) ELSE s

\* s.strip()
Strip(s) == RStrip(LStrip(s))

\* sub in s
Contains(s, sub) ==
    \E i \in 0..(Len(s) - Len(sub)) : SubSeq(s, i + 1, i + Len(sub)) = sub

\* s.endswith(suf)
EndsWith(s, suf) ==
    /\ Len(suf) <= Len(s)
    /\ SubSeq(s, Len(s) - Len(suf) + 1, Len(s)) = suf

\* len(f.readlines())
LineCount(s) ==
    Cardinality({ i \in 1..Len(s) : s[i] = "\n" })
        + (IF s # << >> /\ s[Len(s)] # "\n" THEN 1 ELSE 0)

(***************************************************************************)
(* bytes(content, 'utf-8') and the engine's parse of it.                   *)
(***************************************************************************)
Utf8Width(c) == IF c = "é" THEN 2 ELSE 1

RECURSIVE Utf8Len(_)
Utf8Len(s) == IF s = << >> THEN 0 ELSE Utf8Width(Head(s)) + Utf8Len(Tail(s))

\* The 0-based row of character position pos and its byte column in the row.
RowOf(s, pos) == Cardinality({ i \in 1..pos : s[i] = "\n" })

LineStart(s, pos) ==
    LET nl == { i \in 1..pos : s[i] = "\n" }
    IN  IF nl = {} THEN 0 ELSE CHOOSE i \in nl : \A j \in nl : j <= i

\* The tree of content k as the engine reports it: per node its type, its byte
\* range in the UTF-8 encoding, its start point and its children.
ParserParse(k) ==
    [i \in 1..Len(CharNodes(k)) |->
        LET n == CharNodes(k)[i]
            t == Text(k)
        IN  [type        |-> n.type,
             start_byte  |-> Utf8Len(SubSeq(t, 1, n.s)),
             end_byte    |-> Utf8Len(SubSeq(t, 1, n.e)),
             start_point |-> << RowOf(t, n.s),
                                Utf8Len(SubSeq(t, LineStart(t, n.s) + 1, n.s)) >>,
             children    |-> n.children]]

\* The trees, computed once.
Trees == [k \in ContentIds \ ParserRejects |-> ParserParse(k)]

root_node == 1

\* The cached value None stands for: parse_file's result on failure.
NoTree == 0

(***************************************************************************)
(* The file system.                                                        *)
(***************************************************************************)
Exists(d, p) == d[p].st # "absent"

\* open(file_path, 'r', encoding='utf-8') followed by f.read() succeeds
Readable(d, p) == d[p].st = "ok"

Content(d, p) == Text(d[p].k)

\* self.codebase_root.glob("**/*.ts"): the files that exist, in glob order
find_ts_files(d) == SelectSeq(Paths, LAMBDA p : Exists(d, p))

(***************************************************************************)
(* parse_file: the tree of a path, from the cache when it is there.        *)
(* Gives the tree (NoTree on failure), the cache afterwards and whether    *)
(* the file was opened.                                                    *)
(***************************************************************************)
CacheHit(c, p) == p \in DOMAIN c

\* parse_file without the look into the cache: every call reads the file.
parse_file_NoLookup(c, d, p) ==
    IF Readable(d, p) /\ d[p].k \notin ParserRejects
    THEN [tree |-> d[p].k, cache |-> (p :> d[p].k) @@ c, opened |-> TRUE]
    ELSE [tree |-> NoTree, cache |-> c, opened |-> TRUE]

\* parse_file that finds the key and fetches the tree under another one
\* (the Path, not its str): a cached file gives None.
parse_file_WrongKey(c, d, p) ==
    IF CacheHit(c, p)
    THEN [tree |-> NoTree, cache |-> c, opened |-> FALSE]
    ELSE IF Readable(d, p) /\ d[p].k \notin ParserRejects
         THEN [tree |-> d[p].k, cache |-> (p :> d[p].k) @@ c, opened |-> TRUE]
         ELSE [tree |-> NoTree, cache |-> c, opened |-> TRUE]

parse_file(c, d, p) ==
    IF CacheHit(c, p)
    THEN [tree |-> c[p], cache |-> c, opened |-> FALSE]
    ELSE IF Readable(d, p) /\ d[p].k \notin ParserRejects
         THEN [tree |-> d[p].k, cache |-> (p :> d[p].k) @@ c, opened |-> TRUE]
         ELSE [tree |-> NoTree, cache |-> c, opened |-> TRUE]

\* clear_cache
EmptyCache == << >>

(***************************************************************************)
(* _traverse_tree: the nodes the callback is called on, in call order.     *)
(* ret[n] is what the callback returns on node n.                          *)
(***************************************************************************)
\* The descent decided by truthiness (if continue_traversal:).
Descends_IfTruthy(r) == r \notin { "False", "None", "Zero" }

Descends(r) == r # "False"

RECURSIVE TraverseChildren(_, _, _, _)
RECURSIVE TraverseTree(_, _, _)
TraverseTree(tree, node, ret) ==
    << node >> \o (IF Descends(ret[node])
                   THEN TraverseChildren(tree, tree[node].children, 1, ret)
                   ELSE << >>)

TraverseChildren(tree, kids, i, ret) ==
    IF i > Len(kids) THEN << >>
    ELSE TraverseTree(tree, kids[i], ret) \o TraverseChildren(tree, kids, i + 1, ret)

\* The callbacks of the analyzer (process_node) end without a return: None.
ReturnsNone(tree) == [n \in DOMAIN tree |-> "None"]

Visited(tree) == TraverseTree(tree, root_node, ReturnsNone(tree))

\* The visit order of each tree, computed once.
VisitOrder == [k \in DOMAIN Trees |-> Visited(Trees[k])]

\* The text of a node as the operations take it: content[start_byte:end_byte],
\* a slice of the decoded str by the node's byte offsets.
NodeText(content, node) == Slice(content, node.start_byte, node.end_byte)

\* The concatenation of emit[1] .. emit[n]
RECURSIVE Concat(_, _)
Concat(emit, n) == IF n = 0 THEN << >> ELSE Concat(emit, n - 1) \o emit[n]

(***************************************************************************)
(* find_imports.process_node                                               *)
(***************************************************************************)
IsImportNode(node) == node.type \in { "import_statement", "import_declaration" }

ImportMatches(import_text, class_or_module_name) ==
    Contains(import_text, class_or_module_name)

ImportRecord(node, import_text) ==
    [line        |-> node.start_point[1] + 1,
     text        |-> Strip(import_text),
     import_type |-> node.type]

ImportsOfNode(node, content, name) ==
    IF IsImportNode(node) /\ ImportMatches(NodeText(content, node), name)
    THEN << ImportRecord(node, NodeText(content, node)) >>
    ELSE << >>

(***************************************************************************)
(* find_function_calls.process_node                                        *)
(***************************************************************************)
IsCallNode(node) == node.type = "call_expression" /\ node.children # << >>

CallMatches(found_name, function_name) ==
    \/ found_name = function_name
    \/ EndsWith(found_name, << "." >> \o function_name)

\* first_arg = args_node.children[0]
FirstArgNode(args_node) == args_node.children[1]

HasFirstArg(tree, node) ==
    /\ Len(node.children) > 1
    /\ tree[node.children[2]].type = "arguments"
    /\ tree[node.children[2]].children # << >>

CallRecord(tree, node, content, extract_first_arg) ==
    LET call_info == [line   |-> node.start_point[1] + 1,
                      column |-> node.start_point[2],
                      text   |-> Strip(NodeText(content, node))]
    IN  IF extract_first_arg /\ HasFirstArg(tree, node)
        THEN call_info @@
             [first_arg |->
                 Strip(NodeText(content, tree[FirstArgNode(tree[node.children[2]])]))]
        ELSE call_info

CallsOfNode(tree, node, content, function_name, extract_first_arg) ==
    IF IsCallNode(node)
       /\ CallMatches(NodeText(content, tree[node.children[1]]), function_name)
    THEN << CallRecord(tree, node, content, extract_first_arg) >>
    ELSE << >>

(***************************************************************************)
(* find_class_definitions.process_node                                     *)
(***************************************************************************)
IsClassNode(node) == node.type = "class_declaration"

\* The first child of type type_identifier, 0 when there is none.
ClassNameNode(tree, node) ==
    LET ids == { i \in 1..Len(node.children) :
                    tree[node.children[i]].type = "type_identifier" }
    IN  IF ids = {} THEN 0
        ELSE node.children[CHOOSE i \in ids : \A j \in ids : i <= j]

\* class_name: << >> stands for None
ClassNameMatches(found_class_name, class_name) ==
    class_name = << >> \/ found_class_name = class_name

ClassesOfNode(tree, node, content, class_name) ==
    IF IsClassNode(node) /\ ClassNameNode(tree, node) # 0
       /\ ClassNameMatches(NodeText(content, tree[ClassNameNode(tree, node)]),
                           class_name)
    THEN << [name   |-> NodeText(content, tree[ClassNameNode(tree, node)]),
             line   |-> node.start_point[1] + 1,
             column |-> node.start_point[2],
             text   |-> NodeText(content, node)] >>
    ELSE << >>

(***************************************************************************)
(* The body of the per-file loop of the three find_* operations: the walk  *)
(* of one tree.  process_node opens the file again on every node of its    *)
(* kind, outside any try: when the file cannot be read the exception       *)
(* leaves the operation.                                                   *)
(***************************************************************************)
FindOps == { "find_imports", "find_function_calls", "find_class_definitions" }

OpensFile(op, node) ==
    CASE op = "find_imports"           -> IsImportNode(node)
      [] op = "find_function_calls"    -> IsCallNode(node)
      [] op = "find_class_definitions" -> IsClassNode(node)

RecordsOfNode(op, args, tree, node, content) ==
    CASE op = "find_imports" ->
            ImportsOfNode(node, content, args.name)
      [] op = "find_function_calls" ->
            CallsOfNode(tree, node, content, args.name, args.extract_first_arg)
      [] op = "find_class_definitions" ->
            ClassesOfNode(tree, node, content, args.name)

WalkFile(op, args, k, d, p) ==
    LET tree  == Trees[k]
        visit == VisitOrder[k]
    IN  IF \E i \in 1..Len(visit) : OpensFile(op, tree[visit[i]]) /\ ~Readable(d, p)
        THEN [raised |-> TRUE, recs |-> << >>]
        ELSE [raised |-> FALSE,
              recs   |-> Concat([i \in 1..Len(visit) |->
                                    IF OpensFile(op, tree[visit[i]])
                                    THEN RecordsOfNode(op, args, tree, tree[visit[i]],
                                                       Content(d, p))
                                    ELSE << >>],
                                Len(visit))]

\* The assignment without its guard.
Collect_Always(results, p, recs) == (p :> recs) @@ results

\* if file_imports: results[str(file_path)] = file_imports
Collect(results, p, recs) ==
    IF recs # << >> THEN (p :> recs) @@ results ELSE results

NoResults == << >>

RECURSIVE FindLoop(_, _, _, _, _, _)
FindLoop(op, args, d, files, c, results) ==
    IF files = << >>
    THEN [outcome |-> "returned", result |-> results, cache |-> c]
    ELSE LET p  == Head(files)
             pf == parse_file(c, d, p)
         IN  IF pf.tree = NoTree
             THEN FindLoop(op, args, d, Tail(files), pf.cache, results)
             ELSE LET w == WalkFile(op, args, pf.tree, d, p)
                  IN  IF w.raised
                      THEN [outcome |-> "raised", result |-> NoResults,
                            cache |-> pf.cache]
                      ELSE FindLoop(op, args, d, Tail(files), pf.cache,
                                    Collect(results, p, w.recs))

Find(op, args, c, d) == FindLoop(op, args, d, find_ts_files(d), c, NoResults)

(***************************************************************************)
(* custom_query.  A query string is modelled by what the engine makes of   *)
(* it: it does not compile, or it captures every node of one type under    *)
(* one name.  The raw capture items come in the shape the engine version   *)
(* gives them; an element of an item is a node, an int or a str.           *)
(***************************************************************************)
Queries ==
    { [compiles |-> FALSE],
      [compiles |-> TRUE, type |-> "number", name |-> "num"] }

Shapes == { "pair", "triple", "nameless", "single", "bare" }

NodeElem(n) == [kind |-> "node", v |-> n]
IntElem(i)  == [kind |-> "int", v |-> i]
StrElem(s)  == [kind |-> "str", v |-> s]

RawItem(shape, n, i, name) ==
    CASE shape = "pair"     -> [tuple |-> TRUE,  elems |-> << NodeElem(n), StrElem(name) >>]
      [] shape = "triple"   -> [tuple |-> TRUE,
                                elems |-> << NodeElem(n), IntElem(i), StrElem(name) >>]
      [] shape = "nameless" -> [tuple |-> TRUE,  elems |-> << NodeElem(n), IntElem(i) >>]
      [] shape = "single"   -> [tuple |-> TRUE,  elems |-> << NodeElem(n) >>]
      [] shape = "bare"     -> [tuple |-> FALSE, elems |-> << StrElem(name) >>]

\* query.captures(tree.root_node): one item per node of the captured type, in
\* document order; the i-th item has the shape shapes[i] (cyclically).
Captures(query, k, shapes) ==
    LET hits == SelectSeq(VisitOrder[k], LAMBDA n : Trees[k][n].type = query.type)
    IN  [i \in 1..Len(hits) |->
            RawItem(shapes[((i - 1) % Len(shapes)) + 1], hits[i], i - 1, query.name)]

\* The capture name looked for in the second element only.
CaptureName_SecondOnly(elems) ==
    IF elems[2].kind = "str" THEN elems[2].v ELSE "unknown"

\* The capture name the loop finds in an item of at least two elements.
CaptureName(elems) ==
    IF elems[2].kind = "str" THEN elems[2].v
    ELSE IF Len(elems) >= 3 /\ elems[3].kind = "str" THEN elems[3].v
    ELSE "unknown"

\* The records one raw item adds to file_results.
RecordsOfItem(item, tree, content) ==
    IF item.tuple /\ Len(item.elems) >= 2
    THEN << [capture |-> CaptureName(item.elems),
             line    |-> tree[item.elems[1].v].start_point[1] + 1,
             column  |-> tree[item.elems[1].v].start_point[2],
             text    |-> NodeText(content, tree[item.elems[1].v])] >>
    ELSE << >>

\* The try block of one file: the read, the captures, the loop over them.
QueryFile(query, shapes, k, d, p) ==
    IF ~Readable(d, p) THEN << >>
    ELSE LET captures == Captures(query, k, shapes)
         IN  Concat([i \in 1..Len(captures) |->
                        RecordsOfItem(captures[i], Trees[k], Content(d, p))],
                    Len(captures))

RECURSIVE QueryLoop(_, _, _, _, _, _)
QueryLoop(query, shapes, d, files, c, results) ==
    IF files = << >>
    THEN [outcome |-> "returned", result |-> results, cache |-> c]
    ELSE LET p  == Head(files)
             pf == parse_file(c, d, p)
         IN  IF pf.tree = NoTree
             THEN QueryLoop(query, shapes, d, Tail(files), pf.cache, results)
             ELSE QueryLoop(query, shapes, d, Tail(files), pf.cache,
                            Collect(results, p, QueryFile(query, shapes, pf.tree, d, p)))

custom_query(query, shapes, c, d) ==
    IF ~query.compiles
    THEN [outcome |-> "returned", result |-> NoResults, cache |-> c]
    ELSE QueryLoop(query, shapes, d, find_ts_files(d), c, NoResults)

(***************************************************************************)
(* generate_stats                                                          *)
(***************************************************************************)
Counters ==
    { "imports", "exports", "classes", "interfaces", "functions", "type_aliases" }

\* The counter process_node increments on a node, "" when none.
CounterOf(node) ==
    CASE node.type = "import_statement"       -> "imports"
      [] node.type = "export_statement"       -> "exports"
      [] node.type = "class_declaration"      -> "classes"
      [] node.type = "interface_declaration"  -> "interfaces"
      [] node.type = "function_declaration"   -> "functions"
      [] node.type = "type_alias_declaration" -> "type_aliases"
      [] OTHER                                -> ""

\* The number of nodes of tree k that increment counter name.
CountIn(k, name) ==
    Cardinality({ n \in DOMAIN Trees[k] : CounterOf(Trees[k][n]) = name })

EmptyStats ==
    [total_files |-> 0, total_lines |-> 0, counts |-> [c \in Counters |-> 0],
     file_sizes |-> << >>]

\* The loop turn that counts the file after the read, not before.
StatsOfFile_CountedAfterRead(stats, pf, d, p) ==
    IF ~Readable(d, p) THEN stats
    ELSE LET sized ==
                 [stats EXCEPT
                     !.total_files = @ + 1,
                     !.total_lines = @ + LineCount(Content(d, p)),
                     !.file_sizes  = (p :> LineCount(Content(d, p))) @@ @]
         IN  IF pf.tree = NoTree THEN sized
             ELSE [sized EXCEPT
                      !.counts = [c \in Counters |-> @[c] + CountIn(pf.tree, c)]]

\* One turn of the loop over the files.
StatsOfFile(stats, pf, d, p) ==
    LET counted == [stats EXCEPT !.total_files = @ + 1]
    IN  IF ~Readable(d, p) THEN counted
        ELSE LET sized ==
                     [counted EXCEPT
                         !.total_lines = @ + LineCount(Content(d, p)),
                         !.file_sizes  = (p :> LineCount(Content(d, p))) @@ @]
             IN  IF pf.tree = NoTree THEN sized
                 ELSE [sized EXCEPT
                          !.counts = [c \in Counters |-> @[c] + CountIn(pf.tree, c)]]

RECURSIVE StatsLoop(_, _, _, _)
StatsLoop(d, files, c, stats) ==
    IF files = << >>
    THEN [outcome |-> "returned",
          result  |-> stats @@
                      [avg_lines_per_file |->
                          IF stats.total_files > 0
                          THEN << stats.total_lines, stats.total_files >>
                          ELSE << 0, 1 >>],
          cache   |-> c]
    ELSE LET p  == Head(files)
             pf == IF Readable(d, p) THEN parse_file(c, d, p)
                   ELSE [tree |-> NoTree, cache |-> c, opened |-> FALSE]
         IN  StatsLoop(d, Tail(files), pf.cache, StatsOfFile(stats, pf, d, p))

generate_stats(c, d) == StatsLoop(d, find_ts_files(d), c, EmptyStats)

(***************************************************************************)
(* The state machine: the calls of the public operations, and the file     *)
(* system changing between calls.                                          *)
(***************************************************************************)
FileStates ==
    { [st |-> "ok", k |-> k] : k \in ContentIds }
        \cup { [st |-> "denied"], [st |-> "absent"] }

NoCall == [op |-> "none"]

ImportNames == { << "F", "o", "o" >>, << "i", "m", "p", "o", "r", "t" >> }

FunctionNames == { << "b", "a", "r" >> }

ClassNames == { << >>, << "W", "i", "d", "g", "e", "t" >> }

\* The engine gives every item the same shape, or every second item another.
ShapeVectors == { << s >> : s \in Shapes } \cup { << "pair", s >> : s \in Shapes }

Init ==
    /\ disk \in [PathSet -> FileStates]
    /\ cache = EmptyCache
    /\ last = NoCall

\* What a call of a whole-codebase operation leaves behind.
Returned(op, args, r) ==
    /\ cache' = r.cache
    /\ last' = [op |-> op, args |-> args, cache0 |-> cache,
                outcome |-> r.outcome, result |-> r.result]
    /\ UNCHANGED disk

ParseFile(p) ==
    LET pf == parse_file(cache, disk, p)
    IN  /\ cache' = pf.cache
        /\ last' = [op |-> "parse_file", args |-> [path |-> p], cache0 |-> cache,
                    outcome |-> "returned", result |-> pf.tree, opened |-> pf.opened]
        /\ UNCHANGED disk

ClearCache ==
    /\ cache' = EmptyCache
    /\ UNCHANGED << disk, last >>

FindImports(name) ==
    Returned("find_imports", [name |-> name],
             Find("find_imports", [name |-> name], cache, disk))

FindFunctionCalls(name, extract_first_arg) ==
    LET args == [name |-> name, extract_first_arg |-> extract_first_arg]
    IN  Returned("find_function_calls", args,
                 Find("find_function_calls", args, cache, disk))

FindClassDefinitions(name) ==
    Returned("find_class_definitions", [name |-> name],
             Find("find_class_definitions", [name |-> name], cache, disk))

CustomQuery(query, shapes) ==
    Returned("custom_query", [query |-> query, shapes |-> shapes],
             custom_query(query, shapes, cache, disk))

GenerateStats ==
    Returned("generate_stats", << >>, generate_stats(cache, disk))

\* The file system between two calls: a file is written, protected or deleted.
ChangeFile(p, f) ==
    /\ disk[p] # f
    /\ disk' = [disk EXCEPT ![p] = f]
    /\ last' = NoCall
    /\ UNCHANGED cache

Next ==
    \/ \E p \in PathSet : ParseFile(p)
    \/ ClearCache
    \/ \E name \in ImportNames : FindImports(name)
    \/ \E name \in FunctionNames, x \in BOOLEAN : FindFunctionCalls(name, x)
    \/ \E name \in ClassNames : FindClassDefinitions(name)
    \/ \E q \in Queries, sh \in ShapeVectors :
          /\ q.compiles \/ sh = << "pair" >>
          /\ CustomQuery(q, sh)
    \/ GenerateStats
    \/ \E p \in PathSet, f \in FileStates : ChangeFile(p, f)

Spec == Init /\ [][Next]_vars

(***************************************************************************)
(* What the claims speak of.  `last` is reset when a file changes, so      *)
(* while it holds a call the files are those the call saw.                 *)
(***************************************************************************)
QueryOps == FindOps \cup { "custom_query" }

\* Every tree of cache c was parsed from the file as it is in d.
Coherent(c, d) == \A p \in DOMAIN c : Readable(d, p) /\ d[p].k = c[p]

\* The files the last call enumerated.
Enumerated == { p \in PathSet : Exists(disk, p) }

\* The tree the last call walked for an enumerated file p, NoTree when
\* parse_file gave none: the tree cached before the call, else a fresh parse.
TreeUsed(p) ==
    IF p \in DOMAIN last.cache0 THEN last.cache0[p]
    ELSE IF Readable(disk, p) /\ disk[p].k \notin ParserRejects THEN disk[p].k
    ELSE NoTree

\* The records of file p in a returned mapping, none when p is no key of it.
RecordsFor(result, p) == IF p \in DOMAIN result THEN result[p] ELSE << >>

\* The source text of node n of content k: the characters of its span.
SourceText(k, n) == SubSeq(Text(k), CharNodes(k)[n].s + 1, CharNodes(k)[n].e)

(***************************************************************************)
(* C1: in find_imports, find_function_calls, find_class_definitions and    *)
(* custom_query a file that cannot be read (its tree may be cached         *)
(* already) yields no entry, and the operation returns normally.           *)
(* Stated as the claim has it; the find_* operations violate it.           *)
(***************************************************************************)
C1_UnreadableFileIsSkipped ==
    last.op \in QueryOps =>
        /\ last.outcome = "returned"
        /\ \A p \in Enumerated : ~Readable(disk, p) => p \notin DOMAIN last.result

(***************************************************************************)
(* C2: once parse_file(p) has stored a tree, a later parse_file(p) gives   *)
(* that stored tree back without opening the file and leaves the cache as  *)
(* it was, whatever the file on disk has become; with no tree stored for p *)
(* (as after clear_cache, which leaves the cache empty) parse_file(p)      *)
(* opens the file and gives the parse of what is on disk now.              *)
(***************************************************************************)
C2_CachedTreeServedUntilClear ==
    last.op = "parse_file" =>
        LET p == last.args.path
        IN  /\ p \in DOMAIN last.cache0 =>
                 /\ last.result = last.cache0[p]
                 /\ ~last.opened
                 /\ cache \in { last.cache0, EmptyCache }
            /\ p \notin DOMAIN last.cache0 =>
                 /\ last.opened
                 /\ last.result = TreeUsed(p)
                 /\ last.result # NoTree =>
                        cache \in { (p :> last.result) @@ last.cache0, EmptyCache }

\* A cached tree was served for a file that is deleted, unreadable or changed.
C2_Witness ==
    /\ last.op = "parse_file"
    /\ last.args.path \in DOMAIN last.cache0
    /\ ~last.opened
    /\ \/ ~Readable(disk, last.args.path)
       \/ disk[last.args.path].k # last.result

\* The second call starts with every tree the first one started with.
CacheKept(c0, c1) == \A p \in DOMAIN c0 : p \in DOMAIN c1 /\ c1[p] = c0[p]

(***************************************************************************)
(* C3: a find_* operation called again with the same arguments and no file *)
(* changed in between returns what the call before returned: always when   *)
(* the cache was kept between the two calls, and after clear_cache when    *)
(* the files had not changed since the cached trees were parsed.           *)
(***************************************************************************)
C3_ResultIndependentOfCache ==
    [][ ( /\ last.op \in FindOps
          /\ last'.op = last.op
          /\ last'.args = last.args
          /\ \/ Coherent(last.cache0, disk)
             \/ CacheKept(last.cache0, last'.cache0) )
        => ( /\ last'.outcome = last.outcome
             /\ last'.result = last.result ) ]_vars

\* A find_* call that started from a populated cache of current trees and
\* found something.
C3_Witness ==
    /\ last.op \in FindOps
    /\ last.cache0 # EmptyCache
    /\ Coherent(last.cache0, disk)
    /\ last.outcome = "returned"
    /\ last.result # NoResults

(***************************************************************************)
(* C9: in the mapping find_imports, find_function_calls,                   *)
(* find_class_definitions and custom_query return, every key is an         *)
(* enumerated file and maps to a non-empty list.                           *)
(***************************************************************************)
C9_NoEmptyLists ==
    (last.op \in QueryOps /\ last.outcome = "returned") =>
        \A p \in DOMAIN last.result : p \in Enumerated /\ last.result[p] # << >>

\* A returned mapping that has one walked file as a key and not the other.
C9_Witness ==
    /\ last.op \in QueryOps
    /\ last.outcome = "returned"
    /\ \E p, q \in Enumerated :
          /\ p \in DOMAIN last.result
          /\ q \notin DOMAIN last.result
          /\ TreeUsed(q) # NoTree

(***************************************************************************)
(* The nodes of content k by the text of the file itself: their lines and  *)
(* their source texts, taken from the character spans.                     *)
(***************************************************************************)
LineOf(k, n) == RowOf(Text(k), CharNodes(k)[n].s) + 1

NodesOfType(k, types) ==
    SelectSeq([i \in 1..Len(CharNodes(k)) |-> i],
              LAMBDA n : CharNodes(k)[n].type \in types)

FirstChild(k, n) == CharNodes(k)[n].children[1]

\* The argument expressions of call node n: the children of its arguments
\* node that are no punctuation token.
ArgumentExprs(k, n) ==
    SelectSeq(CharNodes(k)[CharNodes(k)[n].children[2]].children,
              LAMBDA a : CharNodes(k)[a].type \notin { "(", ",", ")" })

\* text is name, or ends with "." followed by name.
NamedBy(text, name) ==
    \/ text = name
    \/ /\ Len(text) > Len(name)
       /\ text[Len(text) - Len(name)] = "."
       /\ SubSeq(text, Len(text) - Len(name) + 1, Len(text)) = name

\* The files of the last call that were walked with the tree of their
\* present content.
WalkedCurrent ==
    { p \in Enumerated : Readable(disk, p) /\ TreeUsed(p) = disk[p].k }

\* The import records of content k for name, by the text of the file.
C4_ExpectedImports(k, name) ==
    LET imports == NodesOfType(k, { "import_statement", "import_declaration" })
        hits    == SelectSeq(imports, LAMBDA n : Contains(SourceText(k, n), name))
    IN  [i \in 1..Len(hits) |->
            [line        |-> LineOf(k, hits[i]),
             text        |-> Strip(SourceText(k, hits[i])),
             import_type |-> CharNodes(k)[hits[i]].type]]

(***************************************************************************)
(* C4: find_imports(name) returns, for a file, exactly one record per      *)
(* import node whose source text contains name, in document order, with    *)
(* the node's 1-based line and its source text trimmed.                    *)
(* Stated as the claim has it; a file with a non-ASCII character before    *)
(* the import violates it.                                                 *)
(***************************************************************************)
C4_ImportRecordsExact ==
    (last.op = "find_imports" /\ last.outcome = "returned") =>
        \A p \in WalkedCurrent :
            RecordsFor(last.result, p) = C4_ExpectedImports(disk[p].k, last.args.name)

(***************************************************************************)
(* C5: with extract_first_arg, the record of a matching call that has at   *)
(* least one argument carries first_arg, the source text of the call's     *)
(* first argument expression.                                              *)
(* Stated as the claim has it; every call with arguments violates it.      *)
(***************************************************************************)
C5_FirstArgIsFirstArgument ==
    ( /\ last.op = "find_function_calls"
      /\ last.args.extract_first_arg
      /\ last.outcome = "returned" ) =>
        \A p \in WalkedCurrent :
            LET k    == disk[p].k
                recs == RecordsFor(last.result, p)
            IN  \A i \in 1..Len(recs) :
                    \A n \in DOMAIN CharNodes(k) :
                        ( /\ CharNodes(k)[n].type = "call_expression"
                          /\ LineOf(k, n) = recs[i].line
                          /\ ArgumentExprs(k, n) # << >> )
                        => /\ "first_arg" \in DOMAIN recs[i]
                           /\ recs[i].first_arg = SourceText(k, ArgumentExprs(k, n)[1])

\* The lines of the calls of content k named by name, by the text of the file.
C8_ExpectedCalls(k, name) ==
    LET calls == NodesOfType(k, { "call_expression" })
        hits  == SelectSeq(calls,
                           LAMBDA n : NamedBy(SourceText(k, FirstChild(k, n)), name))
    IN  [i \in 1..Len(hits) |-> LineOf(k, hits[i])]

(***************************************************************************)
(* C8: find_function_calls(name) emits one record for a call_expression    *)
(* node if and only if the source text of the node's first child is name   *)
(* or ends with "." followed by name.                                      *)
(* Stated as the claim has it; a call behind a non-ASCII character         *)
(* violates it (the slicing of C4).                                        *)
(***************************************************************************)
C8_CallMatchedIffNamed ==
    (last.op = "find_function_calls" /\ last.outcome = "returned") =>
        \A p \in WalkedCurrent :
            LET recs == RecordsFor(last.result, p)
            IN  [i \in 1..Len(recs) |-> recs[i].line]
                    = C8_ExpectedCalls(disk[p].k, last.args.name)

(***************************************************************************)
(* custom_query and the raw capture items that are neither a (node, name)  *)
(* pair nor a (node, index, name) triple.                                  *)
(***************************************************************************)
\* The files custom_query ran its query on: those with a tree and readable.
Queried == { p \in Enumerated : Readable(disk, p) /\ TreeUsed(p) # NoTree }

ShapeOfItem(shapes, i) == shapes[((i - 1) % Len(shapes)) + 1]

\* The capture and line of each record expected for tree k, when the items
\* of the shapes in `named` carry the query's name, those of the shapes in
\* `unnamed` the name "unknown", and the others give no record.
C6_Expected(k, query, shapes, named, unnamed) ==
    LET hits == NodesOfType(k, { query.type })
        kept == SelectSeq([i \in 1..Len(hits) |-> i],
                          LAMBDA i : ShapeOfItem(shapes, i) \in named \cup unnamed)
    IN  [j \in 1..Len(kept) |->
            [capture |-> IF ShapeOfItem(shapes, kept[j]) \in named
                         THEN query.name ELSE "unknown",
             line    |-> LineOf(k, hits[kept[j]])]]

C6_Got(p) ==
    LET recs == RecordsFor(last.result, p)
    IN  [i \in 1..Len(recs) |-> [capture |-> recs[i].capture, line |-> recs[i].line]]

\* C6 as stated: an item that is neither a (node, name) pair nor a
\* (node, index, name) triple produces no record, and the pairs and triples
\* around it are all returned.  A (node, index) item violates it.
C6_OtherShapesDropped ==
    (last.op = "custom_query" /\ last.args.query.compiles) =>
        \A p \in Queried :
            C6_Got(p) = C6_Expected(TreeUsed(p), last.args.query, last.args.shapes,
                                    { "pair", "triple" }, {})

\* C6 as amended: an item that is no tuple, or a tuple of fewer than two
\* elements, produces no record; a tuple of a node and at least one more
\* element, none of the elements 1 and 2 a string, produces a record with
\* capture "unknown"; the pairs and triples around either are all returned.
C6_ShortItemsDroppedNamelessUnknown ==
    (last.op = "custom_query" /\ last.args.query.compiles) =>
        \A p \in Queried :
            C6_Got(p) = C6_Expected(TreeUsed(p), last.args.query, last.args.shapes,
                                    { "pair", "triple" }, { "nameless" })

\* A file with two captures, the first a pair and the second of another
\* shape, whose pair is in the result.
C6_Witness ==
    /\ last.op = "custom_query"
    /\ last.args.query.compiles
    /\ Len(last.args.shapes) = 2
    /\ last.args.shapes[2] \notin { "pair", "triple" }
    /\ \E p \in Queried :
          /\ Len(NodesOfType(TreeUsed(p), { last.args.query.type })) = 2
          /\ p \in DOMAIN last.result

(***************************************************************************)
(* generate_stats and the files that fail.                                 *)
(***************************************************************************)
RECURSIVE SumOver(_, _)
SumOver(S, f) ==
    IF S = {} THEN 0
    ELSE LET x == CHOOSE y \in S : TRUE IN f[x] + SumOver(S \ { x }, f)

TypeOfCounter(c) ==
    CASE c = "imports"      -> "import_statement"
      [] c = "exports"      -> "export_statement"
      [] c = "classes"      -> "class_declaration"
      [] c = "interfaces"   -> "interface_declaration"
      [] c = "functions"    -> "function_declaration"
      [] c = "type_aliases" -> "type_alias_declaration"

\* The statistics expected when the files of `sized` add their lines and
\* the files of `walked` their constructs.
C7_Expected(sized, walked) ==
    [total_files |-> Cardinality(Enumerated),
     total_lines |-> SumOver(sized, [p \in sized |-> LineCount(Content(disk, p))]),
     file_sizes  |-> [p \in sized |-> LineCount(Content(disk, p))],
     counts      |-> [c \in Counters |->
                         SumOver(walked,
                                 [p \in walked |->
                                     Len(NodesOfType(TreeUsed(p), { TypeOfCounter(c) }))])]]

C7_Got ==
    [total_files |-> last.result.total_files,
     total_lines |-> last.result.total_lines,
     file_sizes  |-> last.result.file_sizes,
     counts      |-> last.result.counts]

ReadOk == { p \in Enumerated : Readable(disk, p) }

\* C7 as stated: every enumerated file counts in total_files, and only the
\* files read and parsed add to the lines, the sizes and the constructs.
\* A file that is read and not parsed violates it.
C7_FailedFileAddsNothing ==
    last.op = "generate_stats" => C7_Got = C7_Expected(Queried, Queried)

\* C7 as amended: every enumerated file counts in total_files; a file whose
\* read fails adds nothing else; a file that is read and whose parse fails
\* adds its lines to total_lines and file_sizes and nothing to the construct
\* counters.
C7_ReadFailureAddsNothingParseFailureAddsLines ==
    last.op = "generate_stats" => C7_Got = C7_Expected(ReadOk, Queried)

\* Statistics over a file that was read and not parsed, and one not readable.
C7_Witness ==
    /\ last.op = "generate_stats"
    /\ \E p \in ReadOk : TreeUsed(p) = NoTree /\ p \in DOMAIN last.result.file_sizes
    /\ \E p \in Enumerated : ~Readable(disk, p)

(***************************************************************************)
(* _traverse_tree on its own: every tree of the catalogue walked with a    *)
(* callback that returns False on at most MaxSkips nodes and one other     *)
(* value (None, True or the falsy 0) on the rest.                          *)
(***************************************************************************)
MaxSkips == 2

OtherReturns == { "None", "True", "Zero" }

\* The subsets of S of at most n elements.
RECURSIVE SubsetsUpTo(_, _)
SubsetsUpTo(S, n) ==
    IF n = 0 THEN { {} }
    ELSE LET smaller == SubsetsUpTo(S, n - 1)
         IN  smaller \cup { T \cup { x } : T \in smaller, x \in S }

Callbacks(k) ==
    { [n \in DOMAIN Trees[k] |-> IF n \in F THEN "False" ELSE v] :
        F \in SubsetsUpTo(DOMAIN Trees[k], MaxSkips), v \in OtherReturns }

\* The tree and the callback of the walk are drawn at the start.
InitWalk ==
    /\ disk = [p \in PathSet |-> [st |-> "absent"]]
    /\ cache = EmptyCache
    /\ \E k \in DOMAIN Trees : \E ret \in Callbacks(k) :
          last = [op |-> "pending", args |-> [tree |-> k, ret |-> ret]]

Walk ==
    /\ last.op = "pending"
    /\ last' = [op |-> "_traverse_tree", args |-> last.args,
                result |-> TraverseTree(Trees[last.args.tree], root_node,
                                        last.args.ret)]
    /\ UNCHANGED << disk, cache >>

NextWalk == Walk

SpecWalk == InitWalk /\ [][NextWalk]_vars

\* The proper ancestors of each node of each tree, computed once.
RECURSIVE Descendants(_, _)
Descendants(k, a) ==
    LET kids == { CharNodes(k)[a].children[i] :
                     i \in 1..Len(CharNodes(k)[a].children) }
    IN  kids \cup UNION { Descendants(k, c) : c \in kids }

Ancestors ==
    [k \in DOMAIN Trees |->
        [n \in DOMAIN CharNodes(k) |->
            { a \in DOMAIN CharNodes(k) : n \in Descendants(k, a) }]]

\* a comes before b in pre-order: a is above b, or a's subtree lies to the
\* left of b's.
Precedes(k, a, b) ==
    \/ a \in Ancestors[k][b]
    \/ /\ b \notin Ancestors[k][a]
       /\ CharNodes(k)[a].e <= CharNodes(k)[b].s

(***************************************************************************)
(* C10: _traverse_tree ends, and calls the callback exactly once on every  *)
(* node none of whose proper ancestors got False from the callback, on no  *)
(* other node, a parent before its children and the children left to       *)
(* right; only False stops the descent (None and 0 do not).                *)
(***************************************************************************)
C10_PreOrderWithPruning ==
    last.op = "_traverse_tree" =>
        LET k     == last.args.tree
            ret   == last.args.ret
            calls == last.result
            due   == { n \in DOMAIN CharNodes(k) :
                          \A a \in Ancestors[k][n] : ret[a] # "False" }
        IN  /\ { calls[i] : i \in 1..Len(calls) } = due
            /\ Len(calls) = Cardinality(due)
            /\ \A i, j \in 1..Len(calls) : i < j => Precedes(k, calls[i], calls[j])

\* A walk in which a node with children returned False, a node with children
\* returned None, and some node was therefore never called.
C10_Witness ==
    /\ last.op = "_traverse_tree"
    /\ Len(last.result) < Len(CharNodes(last.args.tree))
    /\ \E i, j \in 1..Len(last.result) :
          /\ last.args.ret[last.result[i]] = "False"
          /\ CharNodes(last.args.tree)[last.result[i]].children # << >>
          /\ last.args.ret[last.result[j]] = "None"
          /\ CharNodes(last.args.tree)[last.result[j]].children # << >>

=============================================================================
